---- MODULE Spec2Model ----
(***************************************************************************)
(* SSR-Stats-Collector.py: credential resolution, base-URL normalisation   *)
(* and the two-level (site -> gateway) interactive statistics workflow.    *)
(*                                                                         *)
(* Text the program applies string operations to (URLs, tokens, file      *)
(* lines, site names, operator input) is a sequence of one-character       *)
(* strings, so strip / lower / startswith / endswith / split are computed  *)
(* as Python computes them.  Device and statistics keys are opaque         *)
(* strings; "" stands for a missing or empty field (both are falsy).       *)
(***************************************************************************)
EXTENDS Integers, Sequences, FiniteSets, TLC

\* ------------------------------------------------------------------ bounds
MaxNorm == 2        \* how many times normalize_base_url is re-applied
MaxLines == 3       \* lines of a plain-text credential file
MaxSites == 2       \* entries of a site-list response
MaxGateways == 2    \* entries of a gateway-inventory response
MaxStats == 2       \* entries of a statistics-list response

\* ------------------------------------------------------------ text helpers
WS == {" "}

Min(S) == CHOOSE x \in S : \A y \in S : x <= y
Max(S) == CHOOSE x \in S : \A y \in S : x >= y

\* str.strip()
Strip(s) ==
    LET keep == {i \in 1..Len(s) : s[i] \notin WS}
    IN  IF keep = {} THEN <<>> ELSE SubSeq(s, Min(keep), Max(keep))

\* str.rstrip("/")
RStripSlash(s) ==
    LET keep == {i \in 1..Len(s) : s[i] # "/"}
    IN  IF keep = {} THEN <<>> ELSE SubSeq(s, 1, Max(keep))

\* str.startswith(p)
StartsWith(s, p) == Len(s) >= Len(p) /\ SubSeq(s, 1, Len(p)) = p

\* str.endswith(p)
EndsWith(s, p) == Len(s) >= Len(p) /\ SubSeq(s, Len(s) - Len(p) + 1, Len(s)) = p

Uppers == <<"A","B","C","D","E","F","G","H","I","J","K","L","M",
            "N","O","P","Q","R","S","T","U","V","W","X","Y","Z">>
Lowers == <<"a","b","c","d","e","f","g","h","i","j","k","l","m",
            "n","o","p","q","r","s","t","u","v","w","x","y","z">>

LowerChar(c) ==
    IF \E i \in 1..Len(Uppers) : Uppers[i] = c
    THEN Lowers[CHOOSE i \in 1..Len(Uppers) : Uppers[i] = c]
    ELSE c

\* str.lower()
Lower(s) == [i \in 1..Len(s) |-> LowerChar(s[i])]

\* Python truthiness of a str-or-None value (None and "" are both <<>>)
Truthy(s) == s # <<>>

\* a or b
Or2(a, b) == IF Truthy(a) THEN a ELSE b

\* ---------------------------------------------------------------- literals
HTTP == <<"h","t","t","p",":","/","/">>
HTTPS == <<"h","t","t","p","s",":","/","/">>
API_V1 == <<"/","a","p","i","/","v","1">>

\* ------------------------------------------------------ normalize_base_url
normalize_base_url(raw_base_url) ==
    LET b0 == Strip(raw_base_url)
        b1 == IF ~StartsWith(b0, HTTP) /\ ~StartsWith(b0, HTTPS)
              THEN HTTPS \o b0 ELSE b0
        b2 == RStripSlash(b1)
    IN  IF b0 = <<>> THEN <<>>
        ELSE IF EndsWith(b2, API_V1) THEN b2
        ELSE b2 \o API_V1


\* ------------------------------------------------- credential file contents
\* A credential file is [exists, json, lines]:
\*   json   <<d>> when json.loads(raw) yields the dict d, <<>> when it raises
\*          or yields something that is not a dict;
\*   lines  raw.splitlines().
\* A dict is a record over the seven keys the program reads; <<>> marks a key
\* that is absent (or whose value is empty).
JKeyOrder == <<"token", "api_token", "MIST_TOKEN", "org_id", "ORG_ID", "base_url", "BASE_URL">>

KeyText == [token      |-> <<"t","o","k","e","n">>,
            api_token  |-> <<"a","p","i","_","t","o","k","e","n">>,
            MIST_TOKEN |-> <<"M","I","S","T","_","T","O","K","E","N">>,
            org_id     |-> <<"o","r","g","_","i","d">>,
            ORG_ID     |-> <<"O","R","G","_","I","D">>,
            base_url   |-> <<"b","a","s","e","_","u","r","l">>,
            BASE_URL   |-> <<"B","A","S","E","_","U","R","L">>]

K_token == KeyText.token
K_mist_token == Lower(KeyText.MIST_TOKEN)
K_api_token == KeyText.api_token
K_org_id == KeyText.org_id
K_base_url == KeyText.base_url

Q == <<"\"">>

\* the text of one "key": "value" member of a JSON object
JsonMember(d, k) == Q \o KeyText[k] \o Q \o <<":", " ">> \o Q \o d[k] \o Q

JsonPresent(d) == SelectSeq(JKeyOrder, LAMBDA k : d[k] # <<>>)

\* the object written one member per line, between a "{" line and a "}" line
JsonPrettyLines(d) ==
    LET ks == JsonPresent(d)
        n  == Len(ks)
    IN  <<  <<"{">>  >>
        \o [i \in 1..n |-> JsonMember(d, ks[i]) \o (IF i < n THEN <<",">> ELSE <<>>)]
        \o <<  <<"}">>  >>

RECURSIVE JoinMembers(_, _, _)
JoinMembers(d, ks, i) ==
    IF i > Len(ks) THEN <<>>
    ELSE JsonMember(d, ks[i])
         \o (IF i < Len(ks) THEN <<",", " ">> ELSE <<>>)
         \o JoinMembers(d, ks, i + 1)

\* the object written on a single line
JsonOneLine(d) == << <<"{">> \o JoinMembers(d, JsonPresent(d), 1) \o <<"}">> >>

JsonDicts ==
    [token      : {<<>>, <<"T">>, <<" ">>},
     api_token  : {<<>>, <<"A">>},
     MIST_TOKEN : {<<>>, <<"M">>},
     org_id     : {<<>>, <<"O">>},
     ORG_ID     : {<<>>, <<"P">>},
     base_url   : {<<>>, <<"a">>, <<" ">>, <<"a", "/">>},
     BASE_URL   : {<<>>, <<"b">>}]

JsonFiles ==
    {[exists |-> TRUE, json |-> <<d>>, lines |-> JsonPrettyLines(d)] : d \in JsonDicts}
    \cup {[exists |-> TRUE, json |-> <<d>>, lines |-> JsonOneLine(d)] : d \in JsonDicts}

LinePool ==
    { <<"t","o","k","e","n","=","T">>,
      <<"T","o","k","e","n"," ","="," ","U"," ">>,
      <<"a","p","i","_","t","o","k","e","n","=","A">>,
      <<"o","r","g","_","i","d","=","O">>,
      <<"b","a","s","e","_","u","r","l","=","a">>,
      <<"b","a","s","e","_","u","r","l","=">>,
      <<"#","c">>,
      <<" ">>,
      <<"T">>,
      <<"a","/">> }

SeqsUpTo(S, n) == UNION {[1..k -> S] : k \in 0..n}

TextFiles == {[exists |-> TRUE, json |-> <<>>, lines |-> ls] : ls \in SeqsUpTo(LinePool, MaxLines)}

MissingFile == [exists |-> FALSE, json |-> <<>>, lines |-> <<>>]

CredFiles == {MissingFile} \cup TextFiles \cup JsonFiles

\* ---------------------------------------------------- load_token_org_url
NoValues == [token |-> <<>>, org_id |-> <<>>, base_url |-> <<>>]

\* raw = f.read().strip() is empty
RawEmpty(lines) == \A i \in 1..Len(lines) : Strip(lines[i]) = <<>>

\* the stripped, non-blank, non-comment lines
NonCommentLines(lines) ==
    LET stripped == [i \in 1..Len(lines) |-> Strip(lines[i])]
    IN  SelectSeq(stripped, LAMBDA l : l # <<>> /\ ~StartsWith(l, <<"#">>))

HasEq(l) == \E i \in 1..Len(l) : l[i] = "="
EqAt(l) == Min({i \in 1..Len(l) : l[i] = "="})
\* k, v = line.split("=", 1); k.strip().lower(), v.strip()
KvKey(l) == Lower(Strip(SubSeq(l, 1, EqAt(l) - 1)))
KvVal(l) == Strip(SubSeq(l, EqAt(l) + 1, Len(l)))

\* the kv dict: a later line overwrites an earlier one with the same key
KvDict(lines) ==
    LET idx == {i \in 1..Len(lines) : HasEq(lines[i])}
        keys == {KvKey(lines[i]) : i \in idx}
    IN  [k \in keys |-> KvVal(lines[Max({i \in idx : KvKey(lines[i]) = k})])]

\* dict.get(k) with None as <<>>
Get(kv, k) == IF k \in DOMAIN kv THEN kv[k] ELSE <<>>

\* the values of token, org_id, base_url after the JSON block
AfterJson(f) ==
    IF f.json # <<>>
    THEN LET data == f.json[1]
         IN  [token    |-> Or2(data.token, Or2(data.api_token, data.MIST_TOKEN)),
              org_id   |-> Or2(data.org_id, data.ORG_ID),
              base_url |-> Or2(data.base_url, data.BASE_URL)]
    ELSE NoValues

\* ... after the key=value block, entered with the values v
AfterKv(v, lines) ==
    LET kv == KvDict(lines)
    IN  IF DOMAIN kv # {}
        THEN [token    |-> Or2(Get(kv, K_token), Or2(Get(kv, K_mist_token), Get(kv, K_api_token))),
              org_id   |-> Get(kv, K_org_id),
              base_url |-> Get(kv, K_base_url)]
        ELSE v

\* AfterPositional with a slip: a value left by an earlier attempt is kept
AfterPositional_KeepsEarlier(v, lines) ==
    IF Len(lines) >= 3
    THEN [token    |-> Or2(v.token, lines[1]),
          org_id   |-> Or2(v.org_id, lines[2]),
          base_url |-> Or2(v.base_url, lines[3])]
    ELSE v

\* ... after the positional block, entered with the values v
AfterPositional(v, lines) ==
    IF Len(lines) >= 3
    THEN [token |-> lines[1], org_id |-> lines[2], base_url |-> lines[3]]
    ELSE v

\* "if token and base_url"
Accepted(v) == Truthy(v.token) /\ Truthy(v.base_url)

\* return token.strip(), (org_id.strip() if org_id else None), normalize_base_url(base_url)
Returned(v) ==
    [ok       |-> TRUE,
     token    |-> Strip(v.token),
     org_id   |-> IF Truthy(v.org_id) THEN Strip(v.org_id) ELSE <<>>,
     base_url |-> normalize_base_url(v.base_url)]

\* sys.exit(1)
Exited == [ok |-> FALSE, token |-> <<>>, org_id |-> <<>>, base_url |-> <<>>]

load_token_org_url(f) ==
    IF ~f.exists THEN Exited
    ELSE IF RawEmpty(f.lines) THEN Exited
    ELSE LET v1 == AfterJson(f)
             lines == NonCommentLines(f.lines)
             v2 == AfterKv(v1, lines)
             v3 == AfterPositional(v2, lines)
         IN  IF Accepted(v1) THEN Returned(v1)
             ELSE IF DOMAIN KvDict(lines) # {} /\ Accepted(v2) THEN Returned(v2)
             ELSE IF Len(lines) >= 3 /\ Accepted(v3) THEN Returned(v3)
             ELSE Exited


\* ----------------------------------------------------------------- state
VARIABLES
    pc,            \* where the process is blocked (on the file, a request or a prompt)
    args,          \* argparse.Namespace: site, device_id
    file,          \* Token-Org-URL.txt
    creds,         \* what load_token_org_url produced
    exit_code,     \* process exit status, -1 while running
    out,           \* status text printed by the last step that printed or moved on
    printed,       \* statistics records printed by the last step
    sites_all, sites, site_id, gateways, all_stats, stats_by_key, gw, stats,
    reqs,          \* GET requests issued in the current pass of the outer loop
    url_in,        \* argument of normalize_base_url
    url_out        \* results of applying normalize_base_url repeatedly

flowVars == <<sites_all, sites, site_id, gateways, all_stats, stats_by_key, gw, stats, reqs>>
mainVars == <<pc, args, file, creds, exit_code, out, printed>>
normVars == <<url_in, url_out>>
vars == <<pc, args, file, creds, exit_code, out, printed,
          sites_all, sites, site_id, gateways, all_stats, stats_by_key, gw, stats,
          reqs, url_in, url_out>>

\* ------------------------------------------------------------- messages
MsgCredentials == "ERROR: Token-Org-URL.txt missing, empty or unparseable"
MsgRequestFailed == "ERROR: Request failed"
MsgApiStatus == "ERROR: Mist API returned"
MsgBadJson == "ERROR: Failed to decode JSON response"
MsgUnexpected == "WARNING: Unexpected response format"
MsgNoSites == "No sites found for org"
MsgExiting == "Exiting gateway stats viewer."
MsgNoSiteId == "ERROR: Selected site has no 'id'. Aborting."
MsgNoGateways == "No gateway devices found for this site."
MsgNoStats == "No stats found for selected gateway."
MsgNotNumber == "Please enter a valid number or 'q' to quit."
MsgOutOfRange == "Please enter a number between 1 and N, or 'q' to quit."

\* ---------------------------------------------------------------- inputs
S1 == <<"s","1">>
S2 == <<"s","2">>
D1 == <<"d","1">>
MAIN_SITE == <<"m","a","i","n","_","s","i","t","e">>

\* --json and --limit change only the rendering and the page size
ArgSets == [site : {<<>>, S1}, device_id : {<<>>, D1}]

\* the credential files of whole-program runs: missing, blank, unparseable,
\* key=value without an org id, and a JSON object with an org id
MainFiles ==
    { MissingFile,
      [exists |-> TRUE, json |-> <<>>, lines |-> << <<" ">> >>],
      [exists |-> TRUE, json |-> <<>>, lines |-> << <<"T">> >>],
      [exists |-> TRUE, json |-> <<>>,
       lines |-> << <<"t","o","k","e","n","=","T">>, <<"b","a","s","e","_","u","r","l","=","a">> >>] }
    \cup {f \in JsonFiles : /\ f.json[1] = [token |-> <<"T">>, api_token |-> <<>>,
                                            MIST_TOKEN |-> <<>>, org_id |-> <<"O">>,
                                            ORG_ID |-> <<>>, base_url |-> <<"a">>,
                                            BASE_URL |-> <<>>]
                            /\ Len(f.lines) = 1}

SiteNames == {MAIN_SITE, <<"M","a","i","n","_","S","i","t","e">>, <<"b","1">>}
SitePool == [name : SiteNames, id : {<<>>, S1}]

\* inventory records: _id appears on records that carry no id
GatewayPool == {g \in [id : {"", "k1"}, mac : {"", "k2"}, _id : {"", "k3"}] : g._id = "" \/ g.id = ""}
StatsPool == [id : {"", "k1"}, _id : {"", "k3"}, mac : {"", "k2"}]

\* what one GET can come back with: a transport failure, or a decoded body
\* that is a bare list, a dict with "results", another dict, or a scalar
FailedResponses ==
    {[kind |-> k, shape |-> "none", items |-> <<>>] : k \in {"neterr", "httperr", "badjson"}}
BodyResponses(pool, n) ==
    {[kind |-> "json", shape |-> sh, items |-> l] : sh \in {"list", "wrapped"}, l \in SeqsUpTo(pool, n)}
    \cup {[kind |-> "json", shape |-> sh, items |-> <<>>] : sh \in {"dict", "scalar"}}
Responses(pool, n) == FailedResponses \cup BodyResponses(pool, n)

\* a single-device statistics response: the dict is carried as items[1]
DeviceResponses ==
    FailedResponses
    \cup {[kind |-> "json", shape |-> sh, items |-> <<st>>] : sh \in {"dict", "wrapped"}, st \in StatsPool}
    \cup {[kind |-> "json", shape |-> sh, items |-> <<>>] : sh \in {"list", "scalar"}}

\* what the operator can type at a prompt
Choices ==
    { <<"q">>, <<" ","Q"," ">>, <<"e","x","i","t">>, <<>>, <<"a">>,
      <<"0">>, <<"1">>, <<"2">>, <<"3">>, <<"1","0">> }
SiteIdInputs == { <<>>, <<"q">>, <<" ","Q","u","i","t">>, <<" ">>, <<" ">> \o S2 }


\* ------------------------------------------------------ API gateway client
\* api_get: the message it prints before sys.exit(1), "" when it returns
api_get(r) ==
    CASE r.kind = "neterr"  -> MsgRequestFailed
      [] r.kind = "httperr" -> MsgApiStatus
      [] r.kind = "badjson" -> MsgBadJson
      [] OTHER              -> ""

\* the three list calls: [exit, msg, items]; exit = TRUE is sys.exit(1)
get_sites(r) ==
    IF api_get(r) # "" THEN [exit |-> TRUE, msg |-> api_get(r), items |-> <<>>]
    ELSE IF r.shape \in {"list", "wrapped"} THEN [exit |-> FALSE, msg |-> "", items |-> r.items]
    ELSE [exit |-> TRUE, msg |-> MsgUnexpected, items |-> <<>>]

get_gateways_for_site(r) ==
    IF api_get(r) # "" THEN [exit |-> TRUE, msg |-> api_get(r), items |-> <<>>]
    ELSE IF r.shape \in {"list", "wrapped"} THEN [exit |-> FALSE, msg |-> "", items |-> r.items]
    ELSE [exit |-> TRUE, msg |-> MsgUnexpected, items |-> <<>>]

get_all_gateway_stats(r) ==
    IF api_get(r) # "" THEN [exit |-> TRUE, msg |-> api_get(r), items |-> <<>>]
    ELSE IF r.shape \in {"list", "wrapped"} THEN [exit |-> FALSE, msg |-> "", items |-> r.items]
    ELSE [exit |-> TRUE, msg |-> MsgUnexpected, items |-> <<>>]

\* the single-device call accepts any dict
get_gateway_stats_for_device(r) ==
    IF api_get(r) # "" THEN [exit |-> TRUE, msg |-> api_get(r), items |-> <<>>]
    ELSE IF r.shape \in {"dict", "wrapped"} THEN [exit |-> FALSE, msg |-> "", items |-> r.items]
    ELSE [exit |-> TRUE, msg |-> MsgUnexpected, items |-> <<>>]

\* -------------------------------------------------------- choose_from_list
Quits == { <<"q">>, <<"q","u","i","t">>, <<"x">>, <<"e","x","i","t">> }
Digits == <<"0","1","2","3","4","5","6","7","8","9">>

\* str.isdigit()
IsDigit(s) == s # <<>> /\ \A i \in 1..Len(s) : \E d \in 1..Len(Digits) : Digits[d] = s[i]
DigitVal(c) == (CHOOSE d \in 1..Len(Digits) : Digits[d] = c) - 1

\* int(s)
RECURSIVE IntOf(_)
IntOf(s) == IF s = <<>> THEN 0
            ELSE IntOf(SubSeq(s, 1, Len(s) - 1)) * 10 + DigitVal(s[Len(s)])

\* one answer at the prompt over n items: "quit" (None is returned), "pick"
\* (idx, 1-based, is returned) or "retry" (a hint is printed and the prompt
\* repeats; the hint, msg, is not status text and leaves the state as it is)
choose_from_list(n, answer) ==
    LET choice == Lower(Strip(answer))
    IN  IF n = 0 THEN [kind |-> "quit", idx |-> 0, msg |-> ""]
        ELSE IF choice \in Quits THEN [kind |-> "quit", idx |-> 0, msg |-> ""]
        ELSE IF ~IsDigit(choice) THEN [kind |-> "retry", idx |-> 0, msg |-> MsgNotNumber]
        ELSE IF 1 <= IntOf(choice) /\ IntOf(choice) <= n
             THEN [kind |-> "pick", idx |-> IntOf(choice), msg |-> ""]
        ELSE [kind |-> "retry", idx |-> 0, msg |-> MsgOutOfRange]

\* ------------------------------------------------------ selection workflow
\* [s for s in sites_all if s.get("name", "").lower() != "main_site"]
filtered_sites(all) == SelectSeq(all, LAMBDA s : Lower(s.name) # MAIN_SITE)

\* displayed_sites with a slip: the filter is applied even when it empties the list
displayed_sites_NoFallback(all) == filtered_sites(all)

\* sites = filtered_sites if filtered_sites else sites_all
displayed_sites(all) == IF filtered_sites(all) # <<>> THEN filtered_sites(all) ELSE all

\* key = st.get("id") or st.get("_id") or st.get("mac")
stats_key(st) == IF st.id # "" THEN st.id ELSE IF st._id # "" THEN st._id ELSE st.mac

\* build_stats_by_key with a slip: an earlier record is kept when a later
\* one has the same key
build_stats_by_key_FirstWins(stats_list) ==
    LET idx == {i \in 1..Len(stats_list) : stats_key(stats_list[i]) # ""}
        keys == {stats_key(stats_list[i]) : i \in idx}
    IN  [k \in keys |-> stats_list[Min({i \in idx : stats_key(stats_list[i]) = k})]]

\* the stats_by_key dict: records without a key are skipped, a later record
\* overwrites an earlier one with the same key
build_stats_by_key(stats_list) ==
    LET idx == {i \in 1..Len(stats_list) : stats_key(stats_list[i]) # ""}
        keys == {stats_key(stats_list[i]) : i \in idx}
    IN  [k \in keys |-> stats_list[Max({i \in idx : stats_key(stats_list[i]) = k})]]

\* dict.get(k): <<>> for None, <<record>> for a hit
MapGet(m, k) == IF k \in DOMAIN m THEN <<m[k]>> ELSE <<>>

\* resolve_stats with a slip: the MAC is looked up before the id
resolve_stats_MacFirst(g, m) ==
    LET first == IF g.mac # "" THEN MapGet(m, g.mac) ELSE <<>>
        inv_key == IF g.id # "" THEN g.id ELSE IF g.mac # "" THEN g.mac ELSE g._id
    IN  IF first = <<>> THEN MapGet(m, inv_key) ELSE first

\* resolve_stats with a slip: _id is tried whenever the id is empty
resolve_stats_AnyId(g, m) ==
    LET inv_key == IF g.id # "" THEN g.id ELSE IF g._id # "" THEN g._id ELSE g.mac
        first == MapGet(m, inv_key)
    IN  IF first = <<>> /\ g.mac # "" THEN MapGet(m, g.mac) ELSE first

\* inv_key = dev_id or mac or gw.get("_id"); lookup; then the MAC fallback
resolve_stats(g, m) ==
    LET inv_key == IF g.id # "" THEN g.id ELSE IF g.mac # "" THEN g.mac ELSE g._id
        first == MapGet(m, inv_key)
    IN  IF first = <<>> /\ g.mac # "" THEN MapGet(m, g.mac) ELSE first

Request(ep, site) == [ep |-> ep, site |-> site]

\* A local that is never read again before it is rebound is dropped (<<>>):
\* sites_all and sites once the site is picked, gateways once the gateway is
\* picked, everything when the loop is re-entered.  all_stats is read only by
\* the construction of stats_by_key, in the step that fetches it.
FreshLocals ==
    /\ sites_all' = <<>>
    /\ sites' = <<>>
    /\ site_id' = <<>>
    /\ gateways' = <<>>
    /\ all_stats' = <<>>
    /\ stats_by_key' = <<>>
    /\ gw' = <<>>
    /\ stats' = <<>>

\* the process ends with the given status after printing msg
Terminate(code, msg) ==
    /\ pc' = "exited"
    /\ exit_code' = code
    /\ out' = msg

InteractivePcs == {"top", "site_prompt", "gw_fetch", "stats_fetch", "gw_prompt", "ack"}

\* main(): load_token_org_url(), then the dispatch on args.site / args.device_id
LoadCredentials ==
    /\ pc = "main"
    /\ creds' = load_token_org_url(file)
    /\ IF ~creds'.ok
       THEN Terminate(1, MsgCredentials)
       ELSE /\ pc' = IF Truthy(args.site)
                     THEN (IF Truthy(args.device_id) THEN "ni_device" ELSE "ni_all")
                     ELSE "top"
            /\ out' = ""
            /\ UNCHANGED exit_code
    /\ UNCHANGED <<args, file, printed, flowVars, normVars>>

\* main(): --site with --device-id
FetchDeviceStats ==
    /\ pc = "ni_device"
    /\ \E r \in DeviceResponses :
         LET res == get_gateway_stats_for_device(r)
         IN  /\ IF res.exit THEN Terminate(1, res.msg) ELSE Terminate(0, "")
             /\ printed' = res.items
    /\ reqs' = Append(reqs, Request("device_stats", args.site))
    /\ UNCHANGED <<args, file, creds, normVars>>
    /\ UNCHANGED <<sites_all, sites, site_id, gateways, all_stats, stats_by_key, gw, stats>>

\* main(): --site alone
FetchAllStats ==
    /\ pc = "ni_all"
    /\ \E r \in Responses(StatsPool, MaxStats) :
         LET res == get_all_gateway_stats(r)
         IN  /\ IF res.exit THEN Terminate(1, res.msg)
                ELSE Terminate(0, IF res.items = <<>> THEN MsgNoGateways ELSE "")
             /\ printed' = res.items
    /\ reqs' = Append(reqs, Request("stats", args.site))
    /\ UNCHANGED <<args, file, creds, normVars>>
    /\ UNCHANGED <<sites_all, sites, site_id, gateways, all_stats, stats_by_key, gw, stats>>

\* outer loop, org id known: get_sites inside try/except SystemExit, the
\* empty check and the main_site filter
FetchSites ==
    /\ pc = "top"
    /\ Truthy(creds.org_id)
    /\ \E r \in Responses(SitePool, MaxSites) :
         LET res == get_sites(r)
         IN  IF res.exit
             THEN /\ Terminate(0, res.msg)
                  /\ UNCHANGED <<sites_all, sites>>
             ELSE IF res.items = <<>>
             THEN /\ Terminate(0, MsgNoSites)
                  /\ sites_all' = res.items
                  /\ UNCHANGED sites
             ELSE /\ sites_all' = res.items
                  /\ sites' = displayed_sites(res.items)
                  /\ pc' = "site_prompt"
                  /\ out' = ""
                  /\ UNCHANGED exit_code
    /\ reqs' = <<Request("sites", <<>>)>>
    /\ printed' = <<>>
    /\ UNCHANGED <<args, file, creds, normVars>>
    /\ UNCHANGED <<site_id, gateways, all_stats, stats_by_key, gw, stats>>

\* outer loop, org id known: one answer at "Select a site:"
SiteChoice ==
    /\ pc = "site_prompt"
    /\ \E answer \in Choices :
         LET c == choose_from_list(Len(sites), answer)
         IN  CASE c.kind = "quit" ->
                    /\ Terminate(0, MsgExiting)
                    /\ UNCHANGED <<site_id, sites_all, sites>>
               [] c.kind = "retry" ->
                    /\ UNCHANGED <<pc, exit_code, out, site_id, sites_all, sites>>
               [] c.kind = "pick" ->
                    /\ site_id' = sites[c.idx].id
                    /\ sites_all' = <<>>
                    /\ sites' = <<>>
                    /\ IF ~Truthy(sites[c.idx].id)
                       THEN Terminate(0, MsgNoSiteId)
                       ELSE /\ pc' = "gw_fetch"
                            /\ out' = ""
                            /\ UNCHANGED exit_code
    /\ printed' = <<>>
    /\ UNCHANGED <<args, file, creds, normVars, reqs>>
    /\ UNCHANGED <<gateways, all_stats, stats_by_key, gw, stats>>

\* outer loop, no org id: the raw site_id prompt
OrglessPrompt ==
    /\ pc = "top"
    /\ ~Truthy(creds.org_id)
    /\ \E answer \in SiteIdInputs :
         IF Strip(answer) = <<>> \/ Lower(Strip(answer)) \in Quits
         THEN /\ Terminate(0, MsgExiting)
              /\ UNCHANGED site_id
         ELSE /\ site_id' = Strip(answer)
              /\ pc' = "gw_fetch"
              /\ out' = ""
              /\ UNCHANGED exit_code
    /\ reqs' = <<>>
    /\ printed' = <<>>
    /\ UNCHANGED <<args, file, creds, normVars>>
    /\ UNCHANGED <<sites_all, sites, gateways, all_stats, stats_by_key, gw, stats>>

\* FetchGateways with a slip: an empty inventory ends the workflow
FetchGateways_EmptyReturns ==
    /\ pc = "gw_fetch"
    /\ \E r \in Responses(GatewayPool, MaxGateways) :
         LET res == get_gateways_for_site(r)
         IN  IF res.exit
             THEN /\ Terminate(1, res.msg)
                  /\ UNCHANGED <<sites_all, sites, site_id, gateways, all_stats, stats_by_key, gw, stats>>
             ELSE IF res.items = <<>>
             THEN /\ Terminate(0, MsgNoGateways)
                  /\ FreshLocals
             ELSE /\ gateways' = res.items
                  /\ pc' = "stats_fetch"
                  /\ out' = ""
                  /\ UNCHANGED <<exit_code, sites_all, sites, site_id, all_stats, stats_by_key, gw, stats>>
    /\ reqs' = Append(reqs, Request("devices", site_id))
    /\ printed' = <<>>
    /\ UNCHANGED <<args, file, creds, normVars>>

\* get_gateways_for_site and the empty-inventory check
FetchGateways ==
    /\ pc = "gw_fetch"
    /\ \E r \in Responses(GatewayPool, MaxGateways) :
         LET res == get_gateways_for_site(r)
         IN  IF res.exit
             THEN /\ Terminate(1, res.msg)
                  /\ UNCHANGED <<sites_all, sites, site_id, gateways, all_stats, stats_by_key, gw, stats>>
             ELSE IF res.items = <<>>
             THEN /\ out' = MsgNoGateways
                  /\ pc' = "top"
                  /\ FreshLocals
                  /\ UNCHANGED exit_code
             ELSE /\ gateways' = res.items
                  /\ pc' = "stats_fetch"
                  /\ out' = ""
                  /\ UNCHANGED <<exit_code, sites_all, sites, site_id, all_stats, stats_by_key, gw, stats>>
    /\ reqs' = Append(reqs, Request("devices", site_id))
    /\ printed' = <<>>
    /\ UNCHANGED <<args, file, creds, normVars>>

\* get_all_gateway_stats and the construction of stats_by_key
FetchStats ==
    /\ pc = "stats_fetch"
    /\ \E r \in Responses(StatsPool, MaxStats) :
         LET res == get_all_gateway_stats(r)
         IN  IF res.exit
             THEN /\ Terminate(1, res.msg)
                  /\ UNCHANGED stats_by_key
             ELSE /\ stats_by_key' = build_stats_by_key(res.items)
                  /\ pc' = "gw_prompt"
                  /\ out' = ""
                  /\ UNCHANGED exit_code
    /\ reqs' = Append(reqs, Request("stats", site_id))
    /\ printed' = <<>>
    /\ UNCHANGED <<args, file, creds, normVars>>
    /\ UNCHANGED <<sites_all, sites, site_id, gateways, all_stats, gw, stats>>

\* GatewayChoice with a slip: a pick fetches the gateway's statistics by itself
GatewayChoice_PerDevice ==
    /\ pc = "gw_prompt"
    /\ \E answer \in Choices :
         LET c == choose_from_list(Len(gateways), answer)
         IN  CASE c.kind = "quit" ->
                    /\ pc' = "top"
                    /\ out' = ""
                    /\ printed' = <<>>
                    /\ FreshLocals
                    /\ UNCHANGED reqs
               [] c.kind = "retry" ->
                    /\ UNCHANGED <<pc, out, printed, sites_all, sites, site_id, gateways, all_stats, stats_by_key, gw, stats>>
                    /\ UNCHANGED reqs
               [] c.kind = "pick" ->
                    /\ gw' = <<gateways[c.idx]>>
                    /\ stats' = resolve_stats(gateways[c.idx], stats_by_key)
                    /\ out' = IF stats' = <<>> THEN MsgNoStats ELSE ""
                    /\ printed' = stats'
                    /\ pc' = "ack"
                    /\ gateways' = <<>>
                    /\ reqs' = Append(reqs, Request("device_stats", site_id))
                    /\ UNCHANGED <<sites_all, sites, site_id, all_stats, stats_by_key>>
    /\ UNCHANGED <<args, file, creds, exit_code, normVars>>

\* one answer at "Gateway selection:", and on a pick the detail display
GatewayChoice ==
    /\ pc = "gw_prompt"
    /\ \E answer \in Choices :
         LET c == choose_from_list(Len(gateways), answer)
         IN  CASE c.kind = "quit" ->
                    /\ pc' = "top"
                    /\ out' = ""
                    /\ printed' = <<>>
                    /\ FreshLocals
               [] c.kind = "retry" ->
                    /\ UNCHANGED <<pc, out, printed, sites_all, sites, site_id, gateways, all_stats, stats_by_key, gw, stats>>
               [] c.kind = "pick" ->
                    /\ gw' = <<gateways[c.idx]>>
                    /\ stats' = resolve_stats(gateways[c.idx], stats_by_key)
                    /\ out' = IF stats' = <<>> THEN MsgNoStats ELSE ""
                    /\ printed' = stats'
                    /\ pc' = "ack"
                    /\ gateways' = <<>>
                    /\ UNCHANGED <<sites_all, sites, site_id, all_stats, stats_by_key>>
    /\ UNCHANGED <<args, file, creds, exit_code, normVars, reqs>>

\* Acknowledge with a slip: the workflow returns after the detail view
Acknowledge_Returns ==
    /\ pc = "ack"
    /\ Terminate(0, "")
    /\ printed' = <<>>
    /\ FreshLocals
    /\ UNCHANGED <<args, file, creds, normVars, reqs>>

\* input("Press Enter to return to site selection...")
Acknowledge ==
    /\ pc = "ack"
    /\ pc' = "top"
    /\ out' = ""
    /\ printed' = <<>>
    /\ FreshLocals
    /\ UNCHANGED <<args, file, creds, exit_code, normVars, reqs>>

\* ------------------------------------------------------------ whole program
Init ==
    /\ pc = "main"
    /\ args \in ArgSets
    /\ file \in MainFiles
    /\ creds = Exited
    /\ exit_code = -1
    /\ out = ""
    /\ printed = <<>>
    /\ sites_all = <<>>
    /\ sites = <<>>
    /\ site_id = <<>>
    /\ gateways = <<>>
    /\ all_stats = <<>>
    /\ stats_by_key = <<>>
    /\ gw = <<>>
    /\ stats = <<>>
    /\ reqs = <<>>
    /\ url_in = <<>>
    /\ url_out = <<>>

Next ==
    \/ LoadCredentials
    \/ FetchDeviceStats
    \/ FetchAllStats
    \/ FetchSites
    \/ SiteChoice
    \/ OrglessPrompt
    \/ FetchGateways
    \/ FetchStats
    \/ GatewayChoice
    \/ Acknowledge

Spec == Init /\ [][Next]_vars


\* ------------------------------------------- credential resolution alone
\* load_token_org_url over every credential file of CredFiles, no flags given
InitCred ==
    /\ pc = "main"
    /\ args = [site |-> <<>>, device_id |-> <<>>]
    /\ file \in CredFiles
    /\ creds = Exited
    /\ exit_code = -1
    /\ out = ""
    /\ printed = <<>>
    /\ sites_all = <<>>
    /\ sites = <<>>
    /\ site_id = <<>>
    /\ gateways = <<>>
    /\ all_stats = <<>>
    /\ stats_by_key = <<>>
    /\ gw = <<>>
    /\ stats = <<>>
    /\ reqs = <<>>
    /\ url_in = <<>>
    /\ url_out = <<>>

SpecCred == InitCred /\ [][LoadCredentials]_vars

\* --------------------------------------------- base-URL normalisation alone
UrlInputs ==
    {lead \o scheme \o host \o tail \o trail :
        lead \in {<<>>, <<" ">>},
        scheme \in {<<>>, HTTP, HTTPS},
        host \in {<<>>, <<"a">>, <<"a", "/", "b">>},
        tail \in {<<>>, <<"/">>, <<"/", "/">>, API_V1, API_V1 \o <<"/">>},
        trail \in {<<>>, <<" ">>}}

InitNorm ==
    /\ pc = "main"
    /\ args = [site |-> <<>>, device_id |-> <<>>]
    /\ file = MissingFile
    /\ creds = Exited
    /\ exit_code = -1
    /\ out = ""
    /\ printed = <<>>
    /\ sites_all = <<>>
    /\ sites = <<>>
    /\ site_id = <<>>
    /\ gateways = <<>>
    /\ all_stats = <<>>
    /\ stats_by_key = <<>>
    /\ gw = <<>>
    /\ stats = <<>>
    /\ reqs = <<>>
    /\ url_in \in UrlInputs
    /\ url_out = <<>>

\* normalize_base_url applied to the input, then to its own result
Normalize ==
    /\ Len(url_out) < MaxNorm
    /\ url_out' = Append(url_out, normalize_base_url(IF url_out = <<>> THEN url_in
                                                      ELSE url_out[Len(url_out)]))
    /\ UNCHANGED <<url_in, mainVars, flowVars>>

SpecNorm == InitNorm /\ [][Normalize]_vars

\* ------------------------------------------ lookup-map construction alone
\* the statistics list as get_all_gateway_stats returned it
InitStats ==
    /\ pc = "stats_fetched"
    /\ args = [site |-> <<>>, device_id |-> <<>>]
    /\ file = MissingFile
    /\ creds = Exited
    /\ exit_code = -1
    /\ out = ""
    /\ printed = <<>>
    /\ sites_all = <<>>
    /\ sites = <<>>
    /\ site_id = <<>>
    /\ gateways = <<>>
    /\ all_stats \in SeqsUpTo(StatsPool, MaxStats)
    /\ stats_by_key = <<>>
    /\ gw = <<>>
    /\ stats = <<>>
    /\ reqs = <<>>
    /\ url_in = <<>>
    /\ url_out = <<>>

\* stats_by_key = {} and the loop over all_stats that fills it
BuildStatsByKey ==
    /\ pc = "stats_fetched"
    /\ pc' = "stats_built"
    /\ stats_by_key' = build_stats_by_key(all_stats)
    /\ UNCHANGED <<args, file, creds, exit_code, out, printed, normVars>>
    /\ UNCHANGED <<sites_all, sites, site_id, gateways, all_stats, gw, stats, reqs>>

SpecStats == InitStats /\ [][BuildStatsByKey]_vars


\* ================================================================== claims
Interactive == creds.ok /\ ~Truthy(args.site)
FatalMsgs == {MsgCredentials, MsgRequestFailed, MsgApiStatus, MsgBadJson, MsgUnexpected, MsgNoSiteId}
TransportMsgs == {MsgRequestFailed, MsgApiStatus, MsgBadJson, MsgUnexpected}
EmptyMsgs == {MsgNoSites, MsgNoGateways, MsgNoStats}

\* C1: the exit status is 0 only on normal completion or an operator quit, and
\* non-zero whenever a fatal configuration or transport error was reported, the
\* site-list fetch of the interactive workflow included.
C1_ExitStatus == pc = "exited" => (exit_code = 0 <=> out \notin FatalMsgs)

IsMainSite(s) == Lower(s.name) = MAIN_SITE
NonMain(all) == {i \in 1..Len(all) : ~IsMainSite(all[i])}
\* the j-th smallest element of the index set I
Nth(I, j) == CHOOSE i \in I : Cardinality({k \in I : k <= i}) = j

\* C4: the displayed site list is the fetched list, in server order, without
\* the sites named main_site (in any letter case), unless that leaves nothing,
\* and then it is the fetched list; it is never empty, and no main_site entry
\* can be selected while another site exists.
C4_SiteFilter ==
    pc = "site_prompt" =>
        /\ sites # <<>>
        /\ IF NonMain(sites_all) = {}
           THEN sites = sites_all
           ELSE /\ Len(sites) = Cardinality(NonMain(sites_all))
                /\ \A j \in 1..Len(sites) : sites[j] = sites_all[Nth(NonMain(sites_all), j)]
                /\ \A j \in 1..Len(sites) : ~IsMainSite(sites[j])

\* C4: a main_site entry in another letter case was removed from a longer list
C4_Witness ==
    /\ pc = "site_prompt"
    /\ Len(sites) < Len(sites_all)
    /\ \E i \in 1..Len(sites_all) : IsMainSite(sites_all[i]) /\ sites_all[i].name # MAIN_SITE

\* C5: a record keyed by the gateway's id is the one displayed, even when
\* another record is keyed by its MAC; without a record keyed by the id, the
\* record keyed by the MAC is displayed.
C5_IdBeforeMac ==
    pc = "ack" =>
        /\ gw[1].id \in DOMAIN stats_by_key => stats = <<stats_by_key[gw[1].id]>>
        /\ (gw[1].id \notin DOMAIN stats_by_key /\ gw[1].mac \in DOMAIN stats_by_key)
              => stats = <<stats_by_key[gw[1].mac]>>

\* C5: the map holds one record under the id and another under the MAC
C5_Witness ==
    /\ pc = "ack"
    /\ gw[1].id \in DOMAIN stats_by_key
    /\ gw[1].mac \in DOMAIN stats_by_key
    /\ stats_by_key[gw[1].id] # stats_by_key[gw[1].mac]
    /\ printed = <<stats_by_key[gw[1].id]>>

\* C6 as stated: statistics are displayed only if a record is keyed by the
\* gateway's id or by its MAC; without such a record "No stats found" is
\* reported.
C6_IdOrMacOnly ==
    pc = "ack" =>
        /\ stats # <<>> => (gw[1].id \in DOMAIN stats_by_key \/ gw[1].mac \in DOMAIN stats_by_key)
        /\ (gw[1].id \notin DOMAIN stats_by_key /\ gw[1].mac \notin DOMAIN stats_by_key)
              => (stats = <<>> /\ out = MsgNoStats)

\* the keys the gateway's statistics may be found under
LookupKeys(g) ==
    ({g.id, g.mac} \cup (IF g.id = "" /\ g.mac = "" THEN {g._id} ELSE {})) \ {""}

\* C6 as amended: statistics are displayed only if a record is keyed by the
\* gateway's id, by its MAC or, for a gateway with neither, by its _id, and
\* the displayed record is one stored under such a key; without such a record
\* "No stats found" is reported.
C6_IdMacOrInternalId ==
    pc = "ack" =>
        /\ stats # <<>> =>
              \E k \in LookupKeys(gw[1]) \cap DOMAIN stats_by_key : stats = <<stats_by_key[k]>>
        /\ LookupKeys(gw[1]) \cap DOMAIN stats_by_key = {}
              => (stats = <<>> /\ out = MsgNoStats /\ printed = <<>>)

\* C6: a gateway with neither id nor MAC is shown the record keyed by its _id
C6_Witness ==
    /\ pc = "ack"
    /\ gw[1].id = "" /\ gw[1].mac = ""
    /\ gw[1]._id \in DOMAIN stats_by_key
    /\ stats = <<stats_by_key[gw[1]._id]>>

\* C7: whenever load_token_org_url returns, the token is non-empty and the
\* base url ends with /api/v1.
C7_ResolvedCredentials ==
    (pc # "main" /\ creds.ok) => (creds.token # <<>> /\ EndsWith(creds.base_url, API_V1))

\* C8: normalize_base_url is idempotent.
C8_Idempotent == Len(url_out) >= 2 => url_out[2] = url_out[1]

\* the three parse attempts, each run on its own, in the order of the code
Attempts(f) ==
    << AfterJson(f),
       AfterKv(NoValues, NonCommentLines(f.lines)),
       AfterPositional(NoValues, NonCommentLines(f.lines)) >>
FirstAcceptedOf(as) ==
    LET ok == {i \in 1..3 : Truthy(as[i].token) /\ Truthy(as[i].base_url)}
    IN  IF ok = {} THEN 0 ELSE Min(ok)
FirstAccepted(f) == FirstAcceptedOf(Attempts(f))

\* C9: the result is that of the first of the three formats (JSON object,
\* key=value lines, three positional lines) whose own attempt finds a token
\* and a base url, whatever a rejected earlier attempt found; a missing or
\* empty file, or no accepted format, exits with a non-zero status.
C9_FirstFormatWins ==
    pc # "main" =>
        LET as == Attempts(file)
            n == FirstAcceptedOf(as)
        IN
        IF ~file.exists \/ RawEmpty(file.lines) \/ n = 0
        THEN ~creds.ok /\ pc = "exited" /\ exit_code = 1
        ELSE LET v == as[n]
             IN  /\ creds.ok
                 /\ pc # "exited"
                 /\ creds.token = Strip(v.token)
                 /\ creds.org_id = Strip(v.org_id)
                 /\ creds.base_url = normalize_base_url(v.base_url)

\* C9: the key=value attempt found a token but no base url, and the positional
\* attempt was accepted
C9_Witness ==
    /\ pc # "main"
    /\ creds.ok
    /\ FirstAccepted(file) = 3
    /\ Truthy(Attempts(file)[2].token)

\* C10: with --site the run never prompts and issues one statistics request
\* (the single-device one with --device-id); with no flags it is interactive;
\* --device-id without --site does not enter the interactive workflow.
C10_ModeDispatch ==
    (pc # "main" /\ creds.ok) =>
        /\ Truthy(args.site) =>
              /\ pc \in {"ni_device", "ni_all", "exited"}
              /\ Len(reqs) <= 1
              /\ \A i \in 1..Len(reqs) :
                    reqs[i].ep = IF Truthy(args.device_id) THEN "device_stats" ELSE "stats"
        /\ (~Truthy(args.site) /\ ~Truthy(args.device_id)) => pc \in InteractivePcs \cup {"exited"}
        /\ (~Truthy(args.site) /\ Truthy(args.device_id)) => pc \notin InteractivePcs

\* the requests of the current pass after the optional site-list request
PassBody == IF reqs # <<>> /\ reqs[1].ep = "sites" THEN Tail(reqs) ELSE reqs

\* the requests of one pass: [sites] when the org id is known, then devices
\* for the chosen site, then at most one stats list for the same site
PassShape ==
    /\ reqs # <<>> => (reqs[1].ep = "sites" <=> Truthy(creds.org_id))
    /\ reqs # <<>> /\ reqs[1].ep = "sites" => reqs[1].site = <<>>
    /\ Len(PassBody) <= 2
    /\ Len(PassBody) >= 1 => PassBody[1].ep = "devices" /\ Truthy(PassBody[1].site)
    /\ Len(PassBody) = 2 => PassBody[2] = Request("stats", PassBody[1].site)

\* where the pass stands when each request has or has not been made
PassProgress ==
    /\ pc = "site_prompt" => reqs = <<Request("sites", <<>>)>>
    /\ pc = "gw_fetch" => PassBody = <<>>
    /\ pc = "stats_fetch" =>
          gateways # <<>> /\ PassBody = <<Request("devices", site_id)>>
    /\ pc = "gw_prompt" =>
          /\ gateways # <<>>
          /\ PassBody = <<Request("devices", site_id), Request("stats", site_id)>>
    /\ pc = "ack" =>
          /\ gw # <<>>
          /\ PassBody = <<Request("devices", site_id), Request("stats", site_id)>>
    /\ (pc = "top" /\ out = MsgNoGateways) =>
          Len(PassBody) = 1 /\ PassBody[1].ep = "devices"

\* stats_by_key is bound only by the step that issues the pass's one
\* statistics-list request, and is otherwise only discarded
MapStep ==
    stats_by_key' # stats_by_key =>
        \/ /\ pc = "stats_fetch" /\ pc' = "gw_prompt"
           /\ reqs' = Append(reqs, Request("stats", site_id))
           /\ site_id' = site_id
        \/ /\ pc' = "top"
           /\ stats_by_key' = <<>>

\* C11: in every pass of the interactive loop the requests are the site list
\* (only when the org id is known), then the gateway inventory of the chosen
\* site, then at most one statistics list of that same site; the statistics
\* list is requested exactly once, before the gateway prompt, when the
\* inventory is non-empty and not at all when it is empty; no request follows
\* the pick of a gateway, in particular no per-device statistics request; and
\* the lookup map is bound only in the step that fetches the pass's
\* statistics list
C11_RequestOrder ==
    /\ [](Interactive => (PassShape /\ PassProgress))
    /\ [][Interactive => (MapStep /\ (pc \in {"gw_prompt", "ack"} => reqs' = reqs))]_vars

\* a pass with a known org id has run to the detail view of a gateway found
\* in the pre-fetched map: three requests, none after the pick
C11_Witness ==
    /\ Interactive /\ pc = "ack" /\ stats # <<>>
    /\ Len(reqs) = 3 /\ reqs[1].ep = "sites"
    /\ reqs[3] = Request("stats", site_id)

\* the candidate keys of a statistics record, in the order of the claim
CandidateKeys(st) == <<st.id, st._id, st.mac>>

\* the first non-empty candidate, "" when there is none
PriorityKey(st) ==
    LET present == {n \in 1..3 : CandidateKeys(st)[n] # ""}
    IN  IF present = {} THEN "" ELSE CandidateKeys(st)[Min(present)]

\* the positions of the list whose record is stored under k
StoredAt(k) == {i \in 1..Len(all_stats) : PriorityKey(all_stats[i]) = k}

\* C12: once the lookup map is built from a pre-fetched statistics list, its
\* keys are exactly the first non-empty of (id, _id, mac) of the records that
\* have one; a record with none of the three adds no key; under each key the
\* map holds the last record of the list with that key; and a record with both
\* an id and a mac is never the value found under its mac
C12_LookupMap ==
    pc = "stats_built" =>
        /\ DOMAIN stats_by_key =
              {PriorityKey(all_stats[i]) : i \in 1..Len(all_stats)} \ {""}
        /\ \A k \in DOMAIN stats_by_key :
              /\ StoredAt(k) # {}
              /\ stats_by_key[k] = all_stats[Max(StoredAt(k))]
        /\ \A i \in 1..Len(all_stats) :
              LET st == all_stats[i]
              IN  /\ (st.id # "" /\ st.mac # "" /\ st.mac \in DOMAIN stats_by_key)
                        => stats_by_key[st.mac] # st
                  /\ (st.id # "" /\ st._id # "" /\ st._id \in DOMAIN stats_by_key)
                        => stats_by_key[st._id] # st

\* two different records share a key and the later one is stored, while a
\* record with an id and a mac sits beside a record keyed by that mac
C12_Witness ==
    /\ pc = "stats_built"
    /\ \E k \in DOMAIN stats_by_key :
          /\ Cardinality({all_stats[i] : i \in StoredAt(k)}) > 1
          /\ stats_by_key[k] = all_stats[Len(all_stats)]
    /\ \E i \in 1..Len(all_stats) :
          all_stats[i].id # "" /\ all_stats[i].mac # ""

====
